---------------------------- MODULE Spec2Model ----------------------------
(***************************************************************************)
(* A model of homeplug_exporter (src/homeplug_exporter.go): the HomePlug   *)
(* MME frame codec, the network-info parser and the collection cycle       *)
(* (Exporter.Collect, get_homeplug_netinfo, write_homeplug and the         *)
(* background read_homeplug goroutine sharing one raw socket).             *)
(*                                                                         *)
(* Bytes are naturals 0..255, Go slices are sequences (1-based here,       *)
(* 0-based offsets of the source are kept in the names o, and converted    *)
(* where a sequence is indexed).                                           *)
(*                                                                         *)
(* Time is discrete.  One second (time.Second) is TicksPerSecond ticks.    *)
(* Steps of the code take no time: a tick passes only when no goroutine    *)
(* has a step it can take at once (every goroutine is blocked on the       *)
(* mutex, on a channel, on the socket or on a timer that has not fired).   *)
(***************************************************************************)
EXTENDS Naturals, Integers, Sequences, FiniteSets, TLC

(***************************************************************************)
(* Bounds of the model.                                                    *)
(***************************************************************************)
\* ticks that make up time.Second
TicksPerSecond == 2
\* Collect calls (scrapes, each in a goroutine of its own) over one run
MaxCycles == 2
\* raw frames that arrive on the socket over one run
MaxFrames == 2
\* frames the socket holds unread at one time
MaxQueue == 1
\* declared network / station counts of the parser's inputs
MaxCount == 2
\* bytes a parser input may carry beyond what its counts require
MaxExtra == 1
\* payload bytes of the frames that are round-tripped
MaxPayload == 2
\* longest byte string handed to HomeplugFrame.UnmarshalBinary
MaxBytes == 7

(***************************************************************************)
(* Program constants: src/homeplug_exporter.go lines 32-36.                *)
(***************************************************************************)
hpVersion == <<0>>
nwInfoReq == <<160, 56>>
nwInfoCnf == <<160, 57>>
hpVendor == <<0, 176, 82>>

\* sizes of the fixed-size wire structures
FrameHeaderLen == 6
NetworkStatusLen == 17
StationStatusLen == 15

Byte == 0..255

\* Go's b[lo:hi] for 0-based lo, hi
Slice(b, lo, hi) == SubSeq(b, lo + 1, hi)

\* Go's b[lo:]
SliceFrom(b, lo) == SubSeq(b, lo + 1, Len(b))

(***************************************************************************)
(* HomeplugFrame: MarshalBinary / read / length / UnmarshalBinary.         *)
(***************************************************************************)
length(h) == 6 + Len(h.Payload)

\* a faulty read: the two type bytes written in field order, not swapped
readUnswapped(h) ==
  << h.Version[1], h.MMEType[1], h.MMEType[2],
     h.Vendor[1], h.Vendor[2], h.Vendor[3] >> \o h.Payload

\* h.read(b) for a b of h.length() bytes: the bytes it leaves in b
read(h) ==
  << h.Version[1], h.MMEType[2], h.MMEType[1],
     h.Vendor[1], h.Vendor[2], h.Vendor[3] >> \o h.Payload

MarshalBinary(h) == [b |-> read(h), err |-> FALSE]

\* the zero value of HomeplugFrame (var h HomeplugFrame)
ZeroFrame == [Version |-> <<0>>, MMEType |-> <<0, 0>>, Vendor |-> <<0, 0, 0>>,
              Payload |-> <<>>]

\* a faulty UnmarshalBinary: the receiver is cleared before the length check
FrameUnmarshalClearing(h, b) ==
  IF Len(b) < 6
  THEN [err |-> TRUE, h |-> ZeroFrame]
  ELSE [err |-> FALSE,
        h |-> [Version |-> <<b[1]>>,
               MMEType |-> <<b[3], b[2]>>,
               Vendor |-> <<b[4], b[5], b[6]>>,
               Payload |-> SliceFrom(b, 6)]]

\* a faulty UnmarshalBinary: the type bytes are taken in wire order
FrameUnmarshalUnswapped(h, b) ==
  IF Len(b) < 6
  THEN [err |-> TRUE, h |-> h]
  ELSE [err |-> FALSE,
        h |-> [Version |-> <<b[1]>>,
               MMEType |-> <<b[2], b[3]>>,
               Vendor |-> <<b[4], b[5], b[6]>>,
               Payload |-> SliceFrom(b, 6)]]

\* (&h).UnmarshalBinary(b) on receiver h: the error and the receiver afterwards
FrameUnmarshalBinary(h, b) ==
  IF Len(b) < 6
  THEN [err |-> TRUE, h |-> h]
  ELSE [err |-> FALSE,
        h |-> [Version |-> <<b[1]>>,
               MMEType |-> <<b[3], b[2]>>,
               Vendor |-> <<b[4], b[5], b[6]>>,
               Payload |-> SliceFrom(b, 6)]]

(***************************************************************************)
(* HomeplugNetworkStatus / HomeplugStationStatus UnmarshalBinary.          *)
(***************************************************************************)
NetworkStatusUnmarshal(b) ==
  IF Len(b) < 17
  THEN [size |-> 0, err |-> TRUE, s |-> <<>>]
  ELSE [size |-> 17, err |-> FALSE,
        s |-> [NetworkID |-> Slice(b, 0, 7),
               ShortID |-> b[8],
               TEI |-> b[9],
               Role |-> b[10],
               CCoAddress |-> Slice(b, 10, 16),
               CCoTEI |-> b[17]]]

\* a faulty station parse: the two rate codes are exchanged
StationStatusSwapped(b) ==
  IF Len(b) < 15
  THEN [size |-> 0, err |-> TRUE, s |-> <<>>]
  ELSE [size |-> 15, err |-> FALSE,
        s |-> [Address |-> Slice(b, 0, 6),
               TEI |-> b[7],
               BridgedAddress |-> Slice(b, 7, 13),
               TxRate |-> b[15],
               RxRate |-> b[14]]]

StationStatusUnmarshal(b) ==
  IF Len(b) < 15
  THEN [size |-> 0, err |-> TRUE, s |-> <<>>]
  ELSE [size |-> 15, err |-> FALSE,
        s |-> [Address |-> Slice(b, 0, 6),
               TEI |-> b[7],
               BridgedAddress |-> Slice(b, 7, 13),
               TxRate |-> b[14],
               RxRate |-> b[15]]]

(***************************************************************************)
(* HomeplugNetworkInfo.UnmarshalBinary.  The result is                     *)
(*   [status, n] with status "ok" (nil error), "eof" (io.ErrUnexpectedEOF) *)
(*   or "panic" (index out of range at b[o]: a run-time panic),            *)
(* and n the receiver as the call leaves it (partly filled on "eof").      *)
(***************************************************************************)
RECURSIVE StationLoop(_, _, _, _)
StationLoop(b, o, left, n) ==
  IF left = 0
  THEN [status |-> "ok", n |-> n]
  ELSE LET r == StationStatusUnmarshal(SliceFrom(b, o))
       IN IF r.err
          THEN [status |-> "eof", n |-> n]
          ELSE StationLoop(b, o + r.size, left - 1,
                           [n EXCEPT !.Stations = Append(@, r.s)])

\* line 137: var num_stations = int(b[o]), then the station loop
ReadStations(b, o, n) ==
  IF o >= Len(b)
  THEN [status |-> "panic", n |-> n]
  ELSE StationLoop(b, o + 1, b[o + 1], n)

RECURSIVE NetworkLoop(_, _, _, _)
NetworkLoop(b, o, left, n) ==
  IF left = 0
  THEN ReadStations(b, o, n)
  ELSE LET r == NetworkStatusUnmarshal(SliceFrom(b, o))
       IN IF r.err
          THEN [status |-> "eof", n |-> n]
          ELSE NetworkLoop(b, o + r.size, left - 1,
                           [n EXCEPT !.Networks = Append(@, r.s)])

\* the zero value of HomeplugNetworkInfo (var n HomeplugNetworkInfo)
ZeroInfo == [Networks |-> <<>>, Stations |-> <<>>]

\* line 125: var num_networks = int(b[o]) with o = 0, then the network loop
NetworkInfoUnmarshal(b) ==
  IF 0 >= Len(b)
  THEN [status |-> "panic", n |-> ZeroInfo]
  ELSE NetworkLoop(b, 1, b[1], ZeroInfo)

(***************************************************************************)
(* Label and value conversions of Exporter.collect (lines 101-113).        *)
(* A Go string is a sequence of one-character strings.                     *)
(***************************************************************************)
HexDigits == <<"0", "1", "2", "3", "4", "5", "6", "7",
               "8", "9", "a", "b", "c", "d", "e", "f">>

HexByte(x) == <<HexDigits[(x \div 16) + 1], HexDigits[(x % 16) + 1]>>

\* hex.EncodeToString
RECURSIVE EncodeToString(_)
EncodeToString(b) ==
  IF b = <<>> THEN <<>> ELSE HexByte(Head(b)) \o EncodeToString(Tail(b))

\* net.HardwareAddr.String: hex bytes separated by colons
RECURSIVE HardwareAddrString(_)
HardwareAddrString(a) ==
  IF a = <<>> THEN <<>>
  ELSE IF Len(a) = 1 THEN HexByte(a[1])
  ELSE HexByte(a[1]) \o <<":">> \o HardwareAddrString(Tail(a))

\* strconv.FormatInt(int64(x), 10) for a uint8 x
RECURSIVE FormatInt(_)
FormatInt(x) ==
  IF x < 10 THEN <<HexDigits[x + 1]>>
  ELSE FormatInt(x \div 10) \o <<HexDigits[(x % 10) + 1]>>

\* a faulty conversion: the division is done first and truncates
RateDivideFirst(code) == (code \div 8) * 1024 * 1024

\* uint64(code) * 1024 * 1024 / 8.  code is a uint8, so the product is at most
\* 255 * 2^20 < 2^28: the 64-bit multiplication never wraps, and float64
\* holds the quotient exactly.
RateBytes(code) == (code * 1024 * 1024) \div 8

NetworkMetric(network) ==
  [desc |-> "network", value |-> network.ShortID,
   labels |-> <<EncodeToString(network.NetworkID), FormatInt(network.TEI),
                HardwareAddrString(network.CCoAddress)>>]

TxMetric(station) ==
  [desc |-> "txRate", value |-> RateBytes(station.TxRate),
   labels |-> <<HardwareAddrString(station.Address), FormatInt(station.TEI)>>]

RxMetric(station) ==
  [desc |-> "rxRate", value |-> RateBytes(station.RxRate),
   labels |-> <<HardwareAddrString(station.Address), FormatInt(station.TEI)>>]

RECURSIVE NetworkMetrics(_)
NetworkMetrics(networks) ==
  IF networks = <<>> THEN <<>>
  ELSE <<NetworkMetric(Head(networks))>> \o NetworkMetrics(Tail(networks))

RECURSIVE StationMetrics(_)
StationMetrics(stations) ==
  IF stations = <<>> THEN <<>>
  ELSE <<TxMetric(Head(stations)), RxMetric(Head(stations))>>
       \o StationMetrics(Tail(stations))

\* the body of the loop over netinfos: the metrics of one info
InfoMetrics(info) == NetworkMetrics(info.Networks) \o StationMetrics(info.Stations)

\* the loop of lines 101-113: the metrics sent to ch, in the order sent
RECURSIVE CollectMetrics(_)
CollectMetrics(netinfos) ==
  IF netinfos = <<>> THEN <<>>
  ELSE InfoMetrics(Head(netinfos)) \o CollectMetrics(Tail(netinfos))

(***************************************************************************)
(* The frames the environment puts on the socket.  A raw frame is          *)
(*   [eth, b]: eth says whether ethernet.Frame.UnmarshalBinary accepts it, *)
(*   b is the ethernet payload (the bytes of the HomePlug frame).          *)
(* The records of a confirm frame carry the frame's arrival number, so     *)
(* that the frames of one run differ.                                      *)
(***************************************************************************)
\* the network and station records of the i-th frame to arrive
NetOf(i) == <<1, 2, 3, 4, 5, 6, i,  i, 2, 0,  0, 176, 82, 0, 0, 1,  3>>
NetB == <<7, 6, 5, 4, 3, 2, 1,  9, 4, 1,  0, 176, 82, 0, 0, 2,  5>>
StaOf(i) == <<0, 176, 82, 0, 0, 16,  i,  0, 176, 82, 0, 0, 17,  100, 50>>
StaB == <<0, 176, 82, 0, 0, 32,  12,  0, 176, 82, 0, 0, 33,  1, 255>>

CnfHeader == <<0, 57, 160, 0, 176, 82>>

FrameKinds == {"cnf", "short", "empty", "req", "runt", "badeth"}

\* the i-th frame to arrive, of kind k
RawFrame(k, i) ==
  CASE k = "cnf" ->
         \* a confirm frame: two networks, two stations
         [eth |-> TRUE,
          b |-> CnfHeader \o <<2>> \o NetOf(i) \o NetB \o <<2>> \o StaOf(i) \o StaB]
    [] k = "short" ->
         \* a confirm frame that declares 2 networks and carries 1
         [eth |-> TRUE, b |-> CnfHeader \o <<2>> \o NetOf(i)]
    [] k = "empty" ->
         \* a confirm frame with an empty payload
         [eth |-> TRUE, b |-> CnfHeader]
    [] k = "req" ->
         \* a discovery request (not a confirm)
         [eth |-> TRUE, b |-> <<0, 56, 160, 0, 176, 82>>]
    [] k = "runt" ->
         \* fewer than 6 bytes
         [eth |-> TRUE, b |-> <<0, 57, 160>>]
    [] OTHER ->
         \* a frame ethernet.Frame.UnmarshalBinary rejects
         [eth |-> FALSE, b |-> <<>>]

(***************************************************************************)
(* State.                                                                  *)
(***************************************************************************)
VARIABLES
  \* Collect calls made so far, and how many of them are blocked in
  \* e.mutex.Lock()
  calls, waiting,
  \* Exporter.mutex: 0 when free, else the cycle of the call that holds it
  \* (cycles are numbered in the order the lock is taken)
  mutex,
  \* position of each cycle's Collect call, and the cycles started
  pc, ncycles,
  \* ticks since the pending time.After(time.Second) of the select was made
  after,
  \* per cycle: the local ni, the value returned, the metrics collect sent,
  \* the conn.WriteTo calls made (the bytes of the HomePlug frame, and
  \* whether the call succeeded)
  ni, result, metrics, writes,
  \* conn.WriteTo calls made over the run
  nwrites,
  \* per cycle: position of its read_homeplug goroutine, the frame h it holds,
  \* and the channel ch (capacity 1)
  rpc, rh, ch,
  \* the socket: frames received and not yet read; ticks since the last
  \* conn.SetReadDeadline; frames that have arrived so far
  sock, connDl, arrived,
  \* whether the process has died of an unrecovered panic
  crashed,
  \* history: per cycle the frames behind the entries of ni (arrival number and
  \* payload), and the arrival numbers of the well-formed confirm frames read
  \* off the socket while the cycle ran
  niSrc, readIn,
  \* history of the running cycle's frame source since the request was sent:
  \* arrival numbers emitted, whether every frame so far was a well-formed
  \* confirm frame less than a second after the one before, ticks since the
  \* last arrival, ticks since the collector last took a frame
  emitted, srcOK, sinceEmit, sinceHandoff,
  \* the codec specification: the input drawn and the output computed
  cin, cout

collectorVars == <<calls, waiting, mutex, pc, ncycles, after, ni, result, metrics, writes, nwrites>>
readerVars == <<rpc, rh, ch, sock, connDl, arrived>>
historyVars == <<niSrc, readIn, emitted, srcOK, sinceEmit, sinceHandoff>>
codecVars == <<cin, cout>>
vars == <<collectorVars, readerVars, crashed, historyVars, codecVars>>

Cycles == 1..MaxCycles
Second == TicksPerSecond

NoResult == [done |-> FALSE, err |-> FALSE, isNil |-> FALSE, ni |-> <<>>]
NoFrame == [h |-> ZeroFrame, id |-> 0]
NoInput == [kind |-> "none"]

\* a frame whose records the cycle is to report: the ethernet layer and the
\* frame header decode, the type is the confirm type, the payload parses
WellFormedConfirm(raw) ==
  /\ raw.eth
  /\ ~FrameUnmarshalBinary(ZeroFrame, raw.b).err
  /\ FrameUnmarshalBinary(ZeroFrame, raw.b).h.MMEType = nwInfoCnf
  /\ NetworkInfoUnmarshal(FrameUnmarshalBinary(ZeroFrame, raw.b).h.Payload).status = "ok"

\* the cycle whose get_homeplug_netinfo call is running, 0 when none is
Current ==
  IF \E c \in Cycles : pc[c] \in {"write", "select"}
  THEN CHOOSE c \in Cycles : pc[c] \in {"write", "select"}
  ELSE 0

InitSystem ==
  /\ calls = 0
  /\ waiting = 0
  /\ mutex = 0
  /\ pc = [c \in Cycles |-> "idle"]
  /\ ncycles = 0
  /\ after = 0
  /\ ni = [c \in Cycles |-> <<>>]
  /\ result = [c \in Cycles |-> NoResult]
  /\ metrics = [c \in Cycles |-> <<>>]
  /\ writes = [c \in Cycles |-> <<>>]
  /\ nwrites = 0
  /\ rpc = [c \in Cycles |-> "none"]
  /\ rh = [c \in Cycles |-> NoFrame]
  /\ ch = [c \in Cycles |-> <<>>]
  /\ sock = <<>>
  /\ connDl = 0
  /\ arrived = 0
  /\ crashed = FALSE
  /\ niSrc = [c \in Cycles |-> <<>>]
  /\ readIn = [c \in Cycles |-> <<>>]
  /\ emitted = <<>>
  /\ srcOK = FALSE
  /\ sinceEmit = 0
  /\ sinceHandoff = 0

Init ==
  /\ InitSystem
  /\ cin = NoInput
  /\ cout = NoInput

(***************************************************************************)
(* Exporter.Collect (lines 86-93) and Exporter.collect (lines 95-115).     *)
(***************************************************************************)
\* a scrape calls Collect and reaches e.mutex.Lock()
Call ==
  /\ ~crashed
  /\ calls < MaxCycles
  /\ calls' = calls + 1
  /\ waiting' = waiting + 1
  /\ UNCHANGED <<mutex, pc, ncycles, after, ni, result, metrics, writes, nwrites>>
  /\ UNCHANGED <<readerVars, crashed, historyVars, codecVars>>

\* e.mutex.Lock() returns in one of the waiting calls, which enters collect
\* and get_homeplug_netinfo (lines 292-294): ni, ch, go read_homeplug; the
\* new goroutine sets the read deadline (line 364) and enters conn.ReadFrom
Lock ==
  /\ ~crashed
  /\ waiting > 0
  /\ mutex = 0
  /\ waiting' = waiting - 1
  /\ ncycles' = ncycles + 1
  /\ mutex' = ncycles + 1
  /\ pc' = [pc EXCEPT ![ncycles + 1] = "write"]
  /\ ni' = [ni EXCEPT ![ncycles + 1] = <<>>]
  /\ ch' = [ch EXCEPT ![ncycles + 1] = <<>>]
  /\ rpc' = [rpc EXCEPT ![ncycles + 1] = "read"]
  /\ connDl' = 0
  /\ UNCHANGED <<calls, after, result, metrics, writes, nwrites>>
  /\ UNCHANGED <<rh, sock, arrived>>
  /\ UNCHANGED <<crashed, historyVars, codecVars>>

\* what collect sends to the metrics channel for the value
\* get_homeplug_netinfo returned: nothing on an error
Emit(res) == IF res.err THEN <<>> ELSE CollectMetrics(res.ni)

\* get_homeplug_netinfo has returned: collect sends the metrics (or returns
\* the error, which Collect logs)
Return(p) ==
  /\ ~crashed
  /\ pc[p] = "ret"
  /\ metrics' = [metrics EXCEPT ![p] = Emit(result[p])]
  /\ pc' = [pc EXCEPT ![p] = "unlock"]
  /\ UNCHANGED <<calls, waiting, mutex, ncycles, after, ni, result, writes, nwrites>>
  /\ UNCHANGED <<readerVars, crashed, historyVars, codecVars>>

\* the deferred e.mutex.Unlock() runs and Collect returns; the values of the
\* cycle (ni, the returned list, the metrics handed over) are gone with it
Unlock(p) ==
  /\ ~crashed
  /\ pc[p] = "unlock"
  /\ mutex' = 0
  /\ pc' = [pc EXCEPT ![p] = "done"]
  /\ ni' = [ni EXCEPT ![p] = <<>>]
  /\ result' = [result EXCEPT ![p] = NoResult]
  /\ metrics' = [metrics EXCEPT ![p] = <<>>]
  /\ writes' = [writes EXCEPT ![p] = <<>>]
  /\ niSrc' = [niSrc EXCEPT ![p] = <<>>]
  /\ readIn' = [readIn EXCEPT ![p] = <<>>]
  /\ emitted' = <<>>
  /\ srcOK' = FALSE
  /\ sinceEmit' = 0
  /\ sinceHandoff' = 0
  \* how the receive task ended is recorded for the running cycle only
  /\ rpc' = [rpc EXCEPT ![p] = IF @ = "failed" THEN "dead" ELSE @]
  /\ UNCHANGED <<calls, waiting, ncycles, after, nwrites>>
  /\ UNCHANGED <<rh, ch, sock, connDl, arrived, crashed, codecVars>>

(***************************************************************************)
(* get_homeplug_netinfo (lines 291-322).                                   *)
(***************************************************************************)
\* lines 325-331: the HomePlug frame write_homeplug builds and marshals
Request == MarshalBinary([Version |-> hpVersion, MMEType |-> nwInfoReq,
                          Vendor |-> hpVendor, Payload |-> <<>>]).b

\* line 298: the value returned when write_homeplug fails
WriteFailed(list) == [done |-> TRUE, err |-> TRUE, isNil |-> TRUE, ni |-> <<>>]

\* line 321: return ni, nil
Collected(list) == [done |-> TRUE, err |-> FALSE, isNil |-> FALSE, ni |-> list]

\* write_homeplug (lines 324-358) sends the request: conn.WriteTo succeeds,
\* and the select of line 303 is entered with a fresh time.After
WriteOk(p) ==
  /\ ~crashed
  /\ pc[p] = "write"
  /\ writes' = [writes EXCEPT ![p] = Append(@, [b |-> Request, ok |-> TRUE])]
  /\ nwrites' = nwrites + 1
  /\ pc' = [pc EXCEPT ![p] = "select"]
  /\ after' = 0
  /\ emitted' = <<>>
  /\ srcOK' = (rpc[p] \notin {"dead", "failed"})
  /\ sinceEmit' = 0
  /\ sinceHandoff' = 0
  /\ UNCHANGED <<calls, waiting, mutex, ncycles, ni, result, metrics>>
  /\ UNCHANGED <<readerVars, crashed, niSrc, readIn, codecVars>>

\* a faulty handling of the failed WriteTo: the error is ignored and the
\* select loop is entered
WriteFailIgnored(p) ==
  /\ ~crashed
  /\ pc[p] = "write"
  /\ writes' = [writes EXCEPT ![p] = Append(@, [b |-> Request, ok |-> FALSE])]
  /\ nwrites' = nwrites + 1
  /\ pc' = [pc EXCEPT ![p] = "select"]
  /\ after' = 0
  /\ srcOK' = FALSE
  /\ UNCHANGED <<calls, waiting, mutex, ncycles, ni, result, metrics>>
  /\ UNCHANGED <<readerVars, crashed, niSrc, readIn, emitted, sinceEmit,
                 sinceHandoff, codecVars>>

\* a faulty handling of the failed WriteTo: the request is sent again
WriteFailRetry(p) ==
  /\ ~crashed
  /\ pc[p] = "write"
  /\ writes' = [writes EXCEPT ![p] = Append(@, [b |-> Request, ok |-> FALSE])]
  /\ nwrites' = nwrites + 1
  /\ UNCHANGED <<calls, waiting, mutex, pc, ncycles, after, ni, result, metrics>>
  /\ UNCHANGED <<readerVars, crashed, historyVars, codecVars>>

\* conn.WriteTo fails: lines 297-299
WriteFail(p) ==
  /\ ~crashed
  /\ pc[p] = "write"
  /\ writes' = [writes EXCEPT ![p] = Append(@, [b |-> Request, ok |-> FALSE])]
  /\ nwrites' = nwrites + 1
  /\ result' = [result EXCEPT ![p] = WriteFailed(ni[p])]
  /\ pc' = [pc EXCEPT ![p] = "ret"]
  /\ srcOK' = FALSE
  /\ UNCHANGED <<calls, waiting, mutex, ncycles, after, ni, metrics>>
  /\ UNCHANGED <<readerVars, crashed, niSrc, readIn, emitted, sinceEmit,
                 sinceHandoff, codecVars>>

\* a faulty accumulation: the newest frame's records are put first
Prepend(list, n) == <<n>> \o list

\* line 311: ni = append(ni, n)
Accumulate(list, n) == Append(list, n)

\* lines 305-315 on a frame h taken from ch: what becomes of ni, whether n was
\* appended, and whether the parse panicked
HandleFrame(list, h) ==
  IF h.MMEType = nwInfoCnf
  THEN LET r == NetworkInfoUnmarshal(h.Payload)
       IN CASE r.status = "ok" ->
                 [ni |-> Accumulate(list, r.n), kept |-> TRUE, panic |-> FALSE]
            [] r.status = "eof" ->
                 [ni |-> list, kept |-> FALSE, panic |-> FALSE]
            [] OTHER ->
                 [ni |-> list, kept |-> FALSE, panic |-> TRUE]
  ELSE [ni |-> list, kept |-> FALSE, panic |-> FALSE]

\* case h := <-ch (lines 304-315), then the select is entered again with a
\* fresh time.After
Recv(p) ==
  /\ ~crashed
  /\ pc[p] = "select"
  /\ ch[p] # <<>>
  /\ LET c == p
         m == Head(ch[c])
         r == HandleFrame(ni[c], m.h)
     IN /\ ch' = [ch EXCEPT ![c] = Tail(@)]
        /\ ni' = [ni EXCEPT ![c] = r.ni]
        /\ niSrc' = [niSrc EXCEPT ![c] = IF r.kept
                                           THEN Append(@, [id |-> m.id, payload |-> m.h.Payload])
                                           ELSE @]
        /\ crashed' = r.panic
  /\ after' = 0
  /\ sinceHandoff' = 0
  /\ UNCHANGED <<calls, waiting, mutex, pc, ncycles, result, metrics, writes, nwrites>>
  /\ UNCHANGED <<rpc, rh, sock, connDl, arrived>>
  /\ UNCHANGED <<readIn, emitted, srcOK, sinceEmit, codecVars>>

\* case <-time.After(time.Second): break ChanLoop, return ni, nil
Timeout(p) ==
  /\ ~crashed
  /\ pc[p] = "select"
  /\ after >= Second
  /\ result' = [result EXCEPT ![p] = Collected(ni[p])]
  /\ pc' = [pc EXCEPT ![p] = "ret"]
  /\ after' = 0
  /\ UNCHANGED <<calls, waiting, mutex, ncycles, ni, metrics, writes, nwrites>>
  /\ UNCHANGED <<readerVars, crashed, historyVars, codecVars>>

(***************************************************************************)
(* read_homeplug (lines 360-388), one goroutine per cycle c.               *)
(* The read deadline belongs to the connection: every SetReadDeadline      *)
(* moves it for all the goroutines blocked in conn.ReadFrom.               *)
(***************************************************************************)
\* the deadline after goroutine c has left conn.ReadFrom: it is kept while
\* another goroutine is blocked there, and is of no effect otherwise (the
\* next ReadFrom is entered through SetReadDeadline), so it is put back to 0
Leave(c) == IF \E d \in Cycles : d # c /\ rpc[d] = "read" THEN connDl ELSE 0

\* lines 371-383 on the frame read: the frame to forward, or none when
\* either UnmarshalBinary fails (continue)
Decode(raw) ==
  IF ~raw.eth
  THEN [fwd |-> FALSE, h |-> ZeroFrame]
  ELSE LET r == FrameUnmarshalBinary(ZeroFrame, raw.b)
       IN IF r.err
          THEN [fwd |-> FALSE, h |-> ZeroFrame]
          ELSE [fwd |-> TRUE, h |-> r.h]

\* conn.ReadFrom returns a frame (lines 365-385); the goroutine is then at
\* ch <- h, or, when the frame is dropped (continue), back in conn.ReadFrom
\* with a new deadline (line 364)
ReaderRead(c) ==
  /\ ~crashed
  /\ rpc[c] = "read"
  /\ sock # <<>>
  /\ LET raw == Head(sock)
         d == Decode(raw)
     IN /\ sock' = Tail(sock)
        /\ rpc' = [rpc EXCEPT ![c] = IF d.fwd THEN "send" ELSE "read"]
        /\ connDl' = IF d.fwd THEN Leave(c) ELSE 0
        /\ rh' = [rh EXCEPT ![c] = IF d.fwd THEN [h |-> d.h, id |-> raw.id] ELSE @]
        /\ readIn' = IF Current # 0 /\ WellFormedConfirm(raw)
                     THEN [readIn EXCEPT ![Current] = Append(@, raw.id)]
                     ELSE readIn
  /\ UNCHANGED <<ch, arrived>>
  /\ UNCHANGED <<collectorVars, crashed, niSrc, emitted, srcOK, sinceEmit,
                 sinceHandoff, codecVars>>

\* line 386: ch <- h goes through once the channel's one slot is free, and
\* the loop is back in conn.ReadFrom with a new deadline (line 364)
ReaderSend(c) ==
  /\ ~crashed
  /\ rpc[c] = "send"
  /\ Len(ch[c]) < 1
  /\ ch' = [ch EXCEPT ![c] = Append(@, rh[c])]
  /\ rh' = [rh EXCEPT ![c] = NoFrame]
  /\ rpc' = [rpc EXCEPT ![c] = "read"]
  /\ connDl' = 0
  /\ UNCHANGED <<sock, arrived>>
  /\ UNCHANGED <<collectorVars, crashed, historyVars, codecVars>>

\* lines 366-369: conn.ReadFrom returns the deadline's timeout error: break
ReaderTimeout(c) ==
  /\ ~crashed
  /\ rpc[c] = "read"
  /\ connDl >= Second
  /\ rpc' = [rpc EXCEPT ![c] = "dead"]
  /\ connDl' = Leave(c)
  /\ UNCHANGED <<rh, ch, sock, arrived>>
  /\ UNCHANGED <<collectorVars, crashed, historyVars, codecVars>>

\* lines 366-369: conn.ReadFrom returns another error: break
ReaderFail(c) ==
  /\ ~crashed
  /\ rpc[c] = "read"
  /\ connDl < Second
  /\ rpc' = [rpc EXCEPT ![c] = IF pc[c] \in {"write", "select", "ret", "unlock"}
                                THEN "failed" ELSE "dead"]
  /\ connDl' = Leave(c)
  /\ IF pc[c] = "select"
     THEN /\ srcOK' = FALSE
          /\ emitted' = <<>>
          /\ sinceEmit' = 0
     ELSE UNCHANGED <<srcOK, emitted, sinceEmit>>
  /\ UNCHANGED <<rh, ch, sock, arrived>>
  /\ UNCHANGED <<collectorVars, crashed, niSrc, readIn, sinceHandoff, codecVars>>

(***************************************************************************)
(* The environment: frames arrive on the socket, time passes.              *)
(***************************************************************************)
Arrive(k) ==
  LET raw == RawFrame(k, arrived + 1) IN
  /\ ~crashed
  /\ arrived < MaxFrames
  /\ Len(sock) < MaxQueue
  /\ arrived' = arrived + 1
  /\ sock' = Append(sock, [id |-> arrived + 1, eth |-> raw.eth, b |-> raw.b])
  /\ IF \E p \in Cycles : pc[p] = "select"
     THEN IF srcOK /\ WellFormedConfirm(raw) /\ sinceEmit < Second
          THEN /\ emitted' = Append(emitted, arrived + 1)
               /\ sinceEmit' = 0
               /\ srcOK' = srcOK
          ELSE /\ srcOK' = FALSE
               /\ emitted' = <<>>
               /\ sinceEmit' = 0
     ELSE UNCHANGED <<emitted, srcOK, sinceEmit>>
  /\ UNCHANGED <<rpc, rh, ch, connDl>>
  /\ UNCHANGED <<collectorVars, crashed, niSrc, readIn, sinceHandoff, codecVars>>

\* some goroutine has a step to take now
Urgent ==
  \/ waiting > 0 /\ mutex = 0
  \/ \E p \in Cycles :
       \/ pc[p] \in {"write", "ret", "unlock"}
       \/ pc[p] = "select" /\ (ch[p] # <<>> \/ after >= Second)
  \/ \E c \in Cycles :
       \/ rpc[c] = "read" /\ (sock # <<>> \/ connDl >= Second)
       \/ rpc[c] = "send" /\ Len(ch[c]) < 1

Min(a, b) == IF a < b THEN a ELSE b

Tick ==
  /\ ~crashed
  /\ ~Urgent
  /\ \/ \E p \in Cycles : pc[p] = "select"
     \/ \E c \in Cycles : rpc[c] = "read"
  /\ IF \E p \in Cycles : pc[p] = "select"
     THEN /\ after' = after + 1
          /\ sinceHandoff' = sinceHandoff + 1
          /\ sinceEmit' = IF srcOK THEN Min(sinceEmit + 1, Second) ELSE sinceEmit
     ELSE UNCHANGED <<after, sinceHandoff, sinceEmit>>
  /\ connDl' = IF \E c \in Cycles : rpc[c] = "read" THEN connDl + 1 ELSE connDl
  /\ UNCHANGED <<calls, waiting, mutex, pc, ncycles, ni, result, metrics, writes, nwrites>>
  /\ UNCHANGED <<rpc, rh, ch, sock, arrived>>
  /\ UNCHANGED <<crashed, niSrc, readIn, emitted, srcOK, codecVars>>

Next ==
  \/ Call
  \/ Lock
  \/ \E p \in Cycles : WriteOk(p)
  \/ \E p \in Cycles : WriteFail(p)
  \/ \E p \in Cycles : Recv(p)
  \/ \E p \in Cycles : Timeout(p)
  \/ \E p \in Cycles : Return(p)
  \/ \E p \in Cycles : Unlock(p)
  \/ \E c \in Cycles : ReaderRead(c)
  \/ \E c \in Cycles : ReaderSend(c)
  \/ \E c \in Cycles : ReaderTimeout(c)
  \/ \E c \in Cycles : ReaderFail(c)
  \/ \E k \in FrameKinds : Arrive(k)
  \/ Tick

Spec == Init /\ [][Next]_vars

\* what the Go scheduler and the clock guarantee: a goroutine that can take
\* a step takes it, and time passes.  Nothing obliges a frame to arrive, a
\* Collect call to be made or a read to fail.
Fairness ==
  /\ WF_vars(Lock)
  /\ WF_vars(Tick)
  /\ \A p \in Cycles :
       /\ WF_vars(WriteOk(p) \/ WriteFail(p))
       /\ WF_vars(Recv(p))
       /\ WF_vars(Timeout(p))
       /\ WF_vars(Return(p))
       /\ WF_vars(Unlock(p))
       /\ WF_vars(ReaderRead(p))
       /\ WF_vars(ReaderSend(p))
       /\ WF_vars(ReaderTimeout(p))

SpecLive == Spec /\ Fairness

(***************************************************************************)
(* The destination address.  A text is a sequence of characters.           *)
(***************************************************************************)
\* the value of a hexadecimal digit, -1 for any other character
HexVal(x) ==
  CASE x = "0" -> 0 [] x = "1" -> 1 [] x = "2" -> 2 [] x = "3" -> 3
    [] x = "4" -> 4 [] x = "5" -> 5 [] x = "6" -> 6 [] x = "7" -> 7
    [] x = "8" -> 8 [] x = "9" -> 9
    [] x \in {"a", "A"} -> 10 [] x \in {"b", "B"} -> 11
    [] x \in {"c", "C"} -> 12 [] x \in {"d", "D"} -> 13
    [] x \in {"e", "E"} -> 14 [] x \in {"f", "F"} -> 15
    [] OTHER -> -1

\* the byte that holds a hexadecimal digit in a Go string
Ascii(x) ==
  CASE x \in {"0", "1", "2", "3", "4", "5", "6", "7", "8", "9"} -> 48 + HexVal(x)
    [] x \in {"A", "B", "C", "D", "E", "F"} -> 55 + HexVal(x)
    [] OTHER -> 87 + HexVal(x)

\* all characters of s, from position lo to hi, are hexadecimal digits
AllHex(s, lo, hi) == \A i \in lo..hi : HexVal(s[i]) >= 0

\* the byte written by the two digits at positions i, i + 1
HexPair(s, i) == 16 * HexVal(s[i]) + HexVal(s[i + 1])

\* hex.DecodeString, which the HexBytes flag of line 41 applies to its text
DecodeString(s) ==
  IF Len(s) % 2 = 0 /\ AllHex(s, 1, Len(s))
  THEN [err |-> FALSE, b |-> [i \in 1..(Len(s) \div 2) |-> HexPair(s, 2 * i - 1)]]
  ELSE [err |-> TRUE, b |-> <<>>]

\* the bytes behind the decoded ones in the array DecodeString decoded in
\* place: the rest of the text, then zeroes
Behind(s, i) == IF i <= Len(s) THEN Ascii(s[i]) ELSE 0

\* what the program makes of the text of --destaddr: kingpin rejects it
\* (line 41), or line 265 slices the decoded bytes to [0:6].  With fewer
\* than 6 bytes decoded the slice expression panics when the capacity is
\* below 6 and otherwise reaches into the bytes behind them.
FlagOutcomes(s) ==
  LET r == DecodeString(s)
  IN IF r.err THEN {[status |-> "rejected", dest |-> <<>>]}
     ELSE IF Len(r.b) >= 6 THEN {[status |-> "ok", dest |-> Slice(r.b, 0, 6)]}
     ELSE {[status |-> "panic", dest |-> <<>>],
           [status |-> "ok",
            dest |-> [i \in 1..6 |-> IF i <= Len(r.b) THEN r.b[i] ELSE Behind(s, i)]]}

\* net.ParseMAC (line 24 of macaddress.go): the forms xx:xx:.., xx-xx-..
\* and xxxx.xxxx.. of 6, 8 or 20 bytes
ParseMAC(s) ==
  LET bad == [err |-> TRUE, b |-> <<>>]
  IN IF Len(s) < 14 THEN bad
     ELSE IF s[3] \in {":", "-"}
     THEN LET n == (Len(s) + 1) \div 3
          IN IF /\ (Len(s) + 1) % 3 = 0
                /\ n \in {6, 8, 20}
                /\ \A i \in 0..(n - 1) :
                     /\ AllHex(s, 3 * i + 1, 3 * i + 2)
                     /\ i < n - 1 => s[3 * i + 3] = s[3]
             THEN [err |-> FALSE, b |-> [i \in 1..n |-> HexPair(s, 3 * i - 2)]]
             ELSE bad
     ELSE IF s[5] = "."
     THEN LET g == (Len(s) + 1) \div 5
          IN IF /\ (Len(s) + 1) % 5 = 0
                /\ (2 * g) \in {6, 8, 20}
                /\ \A i \in 0..(g - 1) :
                     /\ AllHex(s, 5 * i + 1, 5 * i + 4)
                     /\ i < g - 1 => s[5 * i + 5] = "."
             THEN [err |-> FALSE,
                   b |-> [i \in 1..(2 * g) |->
                            HexPair(s, 5 * ((i - 1) \div 2) + 2 * ((i - 1) % 2) + 1)]]
             ELSE bad
     ELSE bad

Broadcast == <<"b", "r", "o", "a", "d", "c", "a", "s", "t">>
All == <<"a", "l", "l">>
Local == <<"l", "o", "c", "a", "l">>

\* macAddressValue.Set on the value v: the error and the value afterwards
Set(v, s) ==
  LET s1 == IF s = Broadcast \/ s = All THEN <<"f", "f", ":", "f", "f", ":", "f", "f", ":", "f", "f", ":", "f", "f", ":", "f", "f">> ELSE s
      s2 == IF s1 = Local THEN <<"0", "0", ":", "b", "0", ":", "5", "2", ":", "0", "0", ":", "0", "0", ":", "0", "1">> ELSE s1
      r == ParseMAC(s2)
  IN IF ~r.err /\ Len(r.b) # 6 THEN [err |-> TRUE, v |-> v]
     ELSE IF ~r.err THEN [err |-> FALSE, v |-> r.b]
     ELSE [err |-> TRUE, v |-> v]

\* the default of --destaddr (line 41)
DefaultDest == <<"0", "0", "B", "0", "5", "2", "0", "0", "0", "0", "0", "1">>

\* texts given as destination
DestTexts ==
  {Broadcast, All, Local, DefaultDest,
   <<"f", "f", ":", "f", "f", ":", "f", "f", ":", "f", "f", ":", "f", "f", ":", "f", "f">>,
   <<"0", "0", ":", "b", "0", ":", "5", "2", ":", "0", "0", ":", "0", "0", ":", "0", "1">>,
   <<"0", "0", "-", "B", "0", "-", "5", "2", "-", "0", "0", "-", "0", "0", "-", "0", "2">>,
   <<"0", "0", "b", "0", ".", "5", "2", "0", "0", ".", "0", "0", "0", "3">>,
   <<"0", "0", ":", "b", "0", ":", "5", "2", ":", "0", "0", ":", "0", "0", ":", "0", "1", ":", "0", "2", ":", "0", "3">>,
   <<"0", "0", ":", "b", "0", ":", "5", "2", ":", "0", "0", ":", "0", "0", ":", "z", "z">>,
   <<"0", "0", "B", "0", "5", "2", "0", "0", "0", "0", "0", "1", "0", "2">>,
   <<"0", "0", "B", "0", "5", "2">>,
   <<"0", "b">>,
   <<"z", "z">>}

(***************************************************************************)
(* The codec specification: an input is drawn, and the function it is an   *)
(* input of is applied to it.                                              *)
(***************************************************************************)
\* bytes the inputs are made of
ByteSamples == {0, 56, 160}

\* the sequences over S of length n
RECURSIVE SeqsOfLen(_, _)
SeqsOfLen(S, n) ==
  IF n = 0 THEN {<<>>}
  ELSE {<<x>> \o t : x \in S, t \in SeqsOfLen(S, n - 1)}

SeqsUpTo(S, n) == UNION {SeqsOfLen(S, k) : k \in 0..n}

\* the wire layout of n network (station) records
RECURSIVE NetworkRecords(_)
NetworkRecords(n) == IF n = 0 THEN <<>> ELSE NetworkRecords(n - 1) \o NetOf(n)

RECURSIVE StationRecords(_)
StationRecords(m) == IF m = 0 THEN <<>> ELSE StationRecords(m - 1) \o StaOf(m)

\* the count-prefixed layout of n networks and m stations, and MaxExtra bytes
Layout(n, m) ==
  <<n>> \o NetworkRecords(n) \o <<m>> \o StationRecords(m)
        \o [i \in 1..MaxExtra |-> 170]

\* every prefix of every layout: for each pair of declared counts, the
\* buffers of every length from 0 to beyond what the counts require
Buffers ==
  UNION { { SubSeq(Layout(n, m), 1, k) : k \in 0..Len(Layout(n, m)) } :
            n \in 0..MaxCount, m \in 0..MaxCount }

\* the frame write_homeplug builds (lines 325-329)
RequestFrame == [Version |-> hpVersion, MMEType |-> nwInfoReq,
                 Vendor |-> hpVendor, Payload |-> <<>>]

Frames ==
  [Version : SeqsOfLen(ByteSamples, 1), MMEType : SeqsOfLen(ByteSamples, 2),
   Vendor : SeqsOfLen(ByteSamples, 3), Payload : SeqsUpTo(ByteSamples, MaxPayload)]
  \cup {RequestFrame}

\* bytes the strings handed to HomeplugFrame.UnmarshalBinary are made of
WireSamples == {56, 160}

\* the frames UnmarshalBinary is called on: the zero frame of line 378 and
\* one whose fields are all set
Receivers ==
  {ZeroFrame,
   [Version |-> <<56>>, MMEType |-> <<160, 56>>, Vendor |-> <<0, 56, 160>>,
    Payload |-> <<160>>]}

CodecInputs ==
  {[kind |-> "buffer", b |-> x] : x \in Buffers}
  \cup {[kind |-> "frame", f |-> x] : x \in Frames}
  \cup {[kind |-> "bytes", b |-> x, h |-> r] :
           x \in SeqsUpTo(WireSamples, MaxBytes), r \in Receivers}
  \cup {[kind |-> "rate", code |-> x] : x \in Byte}
  \cup {[kind |-> "dest", text |-> x, prev |-> v] :
           x \in DestTexts, v \in {<<>>, <<0, 176, 82, 0, 0, 9>>}}

InitCodec ==
  /\ InitSystem
  /\ cin \in CodecInputs
  /\ cout = NoInput

\* HomeplugNetworkInfo.UnmarshalBinary on the buffer drawn
ParseBuffer ==
  /\ cin.kind = "buffer"
  /\ cout = NoInput
  /\ cout' = [kind |-> "parsed", r |-> NetworkInfoUnmarshal(cin.b)]
  /\ UNCHANGED <<collectorVars, readerVars, crashed, historyVars, cin>>

\* MarshalBinary on the frame drawn, then UnmarshalBinary of the bytes into
\* a zero frame
RoundTrip ==
  /\ cin.kind = "frame"
  /\ cout = NoInput
  /\ LET m == MarshalBinary(cin.f)
     IN cout' = [kind |-> "roundtrip", m |-> m,
                 u |-> FrameUnmarshalBinary(ZeroFrame, m.b)]
  /\ UNCHANGED <<collectorVars, readerVars, crashed, historyVars, cin>>

\* HomeplugFrame.UnmarshalBinary of the bytes drawn into the receiver drawn,
\* and what lines 371-383 of the receive loop make of the same bytes
DecodeBytes ==
  /\ cin.kind = "bytes"
  /\ cout = NoInput
  /\ cout' = [kind |-> "decoded",
              u |-> FrameUnmarshalBinary(cin.h, cin.b),
              d |-> Decode([eth |-> TRUE, b |-> cin.b])]
  /\ UNCHANGED <<collectorVars, readerVars, crashed, historyVars, cin>>

\* the values of the tx and rx metrics (lines 108-111) of a station whose
\* rate codes are the code drawn
ConvertRate ==
  /\ cin.kind = "rate"
  /\ cout = NoInput
  /\ LET station == [StationStatusUnmarshal(StaB).s EXCEPT
                       !.TxRate = cin.code, !.RxRate = cin.code]
     IN cout' = [kind |-> "rate", tx |-> TxMetric(station).value,
                 rx |-> RxMetric(station).value]
  /\ UNCHANGED <<collectorVars, readerVars, crashed, historyVars, cin>>

\* the text drawn is given as --destaddr (lines 41 and 265), and is given
\* to macAddressValue.Set on a value that holds cin.prev
ParseDest ==
  /\ cin.kind = "dest"
  /\ cout = NoInput
  /\ \E o \in FlagOutcomes(cin.text) :
       cout' = [kind |-> "dest", flag |-> o, set |-> Set(cin.prev, cin.text)]
  /\ UNCHANGED <<collectorVars, readerVars, crashed, historyVars, cin>>

NextCodec ==
  \/ ParseBuffer
  \/ RoundTrip
  \/ DecodeBytes
  \/ ConvertRate
  \/ ParseDest

SpecCodec == InitCodec /\ [][NextCodec]_vars

(***************************************************************************)
(* What the wire layout of a payload says, read off by position (not by    *)
(* the parser): the reference the results are compared with.               *)
(***************************************************************************)
\* the network record at 0-based offset o
NetworkAt(b, o) ==
  [NetworkID |-> [i \in 1..7 |-> b[o + i]],
   ShortID |-> b[o + 8], TEI |-> b[o + 9], Role |-> b[o + 10],
   CCoAddress |-> [i \in 1..6 |-> b[o + 10 + i]],
   CCoTEI |-> b[o + 17]]

\* the station record at 0-based offset o
StationAt(b, o) ==
  [Address |-> [i \in 1..6 |-> b[o + i]],
   TEI |-> b[o + 7],
   BridgedAddress |-> [i \in 1..6 |-> b[o + 7 + i]],
   TxRate |-> b[o + 14], RxRate |-> b[o + 15]]

\* bytes the counts declared in b require; b is too short when it lacks a
\* count byte or a declared record
DeclaredNetworks(b) == b[1]
StationCountAt(b) == 1 + NetworkStatusLen * DeclaredNetworks(b)
DeclaredStations(b) == b[StationCountAt(b) + 1]
Required(b) == StationCountAt(b) + 1 + StationStatusLen * DeclaredStations(b)

TooShort(b) ==
  \/ Len(b) = 0
  \/ Len(b) < StationCountAt(b) + 1
  \/ Len(b) < Required(b)

\* the records of a payload that is not too short, in wire order
WireInfo(b) ==
  [Networks |-> [i \in 1..DeclaredNetworks(b) |->
                   NetworkAt(b, 1 + NetworkStatusLen * (i - 1))],
   Stations |-> [j \in 1..DeclaredStations(b) |->
                   StationAt(b, StationCountAt(b) + 1 + StationStatusLen * (j - 1))]]

\* the metrics of one frame: its networks in wire order, then tx and rx of
\* each station in wire order
FrameMetrics(b) ==
  LET w == WireInfo(b)
  IN [i \in 1..Len(w.Networks) |-> NetworkMetric(w.Networks[i])]
     \o [x \in 1..(2 * Len(w.Stations)) |->
           IF x % 2 = 1 THEN TxMetric(w.Stations[(x + 1) \div 2])
                        ELSE RxMetric(w.Stations[x \div 2])]

\* the metrics of the frames src, frame after frame
RECURSIVE WireMetrics(_)
WireMetrics(src) ==
  IF src = <<>> THEN <<>>
  ELSE WireMetrics(SubSeq(src, 1, Len(src) - 1)) \o FrameMetrics(src[Len(src)].payload)

\* cycle c has returned a list (not an error)
Returned(c) == pc[c] \in {"ret", "unlock"} /\ result[c].done /\ ~result[c].err

\* the records of the frame with arrival number id are in the list cycle c
\* returned
InResult(c, id) ==
  \E k \in 1..Len(result[c].ni) :
    /\ k <= Len(niSrc[c])
    /\ niSrc[c][k].id = id
    /\ result[c].ni[k] = WireInfo(niSrc[c][k].payload)

\* the foreground of cycle c (send, collect, report) is running
Foreground(c) == pc[c] \in {"write", "select", "ret", "unlock"}

\* the receive task of cycle c is running
Receiving(c) == rpc[c] \in {"read", "send"}

(***************************************************************************)
(* Properties of the codec (checked under SpecCodec).                      *)
(***************************************************************************)
\* C7: parsing a buffer that is shorter than the records its counts declare
\* - the empty buffer and a buffer that ends where the station count should
\* be included - reports the truncation error: it does not crash and does
\* not succeed.
C7_TruncatedBufferIsError ==
  (cout.kind = "parsed" /\ TooShort(cin.b)) => cout.r.status = "eof"

\* Parsing a buffer that holds every record its counts declare succeeds and
\* yields the records in wire order; a buffer cut inside a record, or with
\* fewer records than declared, reports the truncation error.
ParseCompleteBuffer ==
  cout.kind = "parsed" =>
    /\ ~TooShort(cin.b) => (cout.r.status = "ok" /\ cout.r.n = WireInfo(cin.b))
    /\ (TooShort(cin.b) /\ Len(cin.b) # 0 /\ Len(cin.b) # StationCountAt(cin.b))
         => cout.r.status = "eof"

\* The parser indexes the count byte without a length check: exactly the
\* empty buffer and the buffer that ends at the station count make it panic.
ParsePanicsAtMissingCount ==
  cout.kind = "parsed" =>
    (cout.r.status = "panic" <=>
       (Len(cin.b) = 0 \/ Len(cin.b) = StationCountAt(cin.b)))

\* C10: encoding a frame never fails and yields 6 + len(payload) bytes, and
\* decoding those bytes yields version, type, vendor and payload equal to the
\* frame's.
C10_FrameRoundTrip ==
  cout.kind = "roundtrip" =>
    /\ ~cout.m.err
    /\ Len(cout.m.b) = FrameHeaderLen + Len(cin.f.Payload)
    /\ ~cout.u.err
    /\ cout.u.h.Version = cin.f.Version
    /\ cout.u.h.MMEType = cin.f.MMEType
    /\ cout.u.h.Vendor = cin.f.Vendor
    /\ cout.u.h.Payload = cin.f.Payload

\* a frame whose two type bytes differ and whose payload is not empty has
\* been encoded and decoded
C10_Witness ==
  /\ cout.kind = "roundtrip"
  /\ cin.f.MMEType[1] # cin.f.MMEType[2]
  /\ Len(cin.f.Payload) = MaxPayload
  /\ Len(cout.m.b) = FrameHeaderLen + MaxPayload

(***************************************************************************)
(* Properties of the collection cycles (checked under Spec).               *)
(***************************************************************************)
\* the wire bytes of a transmission decode to this message type
WireType(b) == FrameUnmarshalBinary(ZeroFrame, b).h.MMEType

\* cycle c attempted a transmission that failed
WriteHasFailed(c) == \E i \in 1..Len(writes[c]) : ~writes[c][i].ok

\* C4: when the transmission of the request fails, the cycle ends at once
\* with that error: the list it returns is nil, never a partial list, it
\* never enters the wait for replies, and the collection emits no metric.
C4_WriteFailureEndsCycle ==
  \A c \in Cycles :
    WriteHasFailed(c) =>
      /\ pc[c] \in {"ret", "unlock"}
      /\ result[c].done /\ result[c].err /\ result[c].isNil
      /\ result[c].ni = <<>>
      /\ metrics[c] = <<>>

\* a cycle whose transmission failed has reported, while a confirmation that
\* its receive task had already forwarded sits in its channel
C4_Witness ==
  \E c \in Cycles :
    /\ WriteHasFailed(c)
    /\ pc[c] = "unlock"
    /\ Len(ch[c]) = 1
    /\ WellFormedConfirm([eth |-> TRUE, b |-> read(ch[c][1].h)])

\* C5: a cycle transmits exactly one frame, of the request type, whether or
\* not the transmission succeeds: there is no retry and no second request.
C5_OneRequestPerCycle ==
  /\ nwrites = Cardinality({c \in Cycles : pc[c] \in {"select", "ret", "unlock", "done"}})
  /\ \A c \in Cycles :
       /\ Len(writes[c]) <= 1
       /\ pc[c] \in {"idle", "write"} => writes[c] = <<>>
       /\ pc[c] \in {"select", "ret", "unlock"} =>
            /\ Len(writes[c]) = 1
            /\ WireType(writes[c][1].b) = nwInfoReq
            /\ Len(writes[c][1].b) = FrameHeaderLen
       /\ pc[c] = "select" => writes[c][1].ok

\* one cycle has ended after a failed transmission and a later one has
\* collected a confirmation: two transmissions in all
C5_Witness ==
  /\ nwrites = 2
  /\ \E c, d \in Cycles :
       /\ pc[c] = "done"
       /\ pc[d] = "unlock" /\ writes[d][1].ok /\ Len(result[d].ni) >= 1

\* C9: no frame, whatever its content, ends the process: a malformed or
\* unexpected frame is skipped.
C9_NoFrameIsFatal == ~crashed

\* the arrival numbers held, oldest first, by the receive task and channel of
\* cycle c and then by the socket queue
InFlight(c) ==
  [i \in 1..Len(ch[c]) |-> ch[c][i].id]
  \o (IF rpc[c] = "send" THEN <<rh[c].id>> ELSE <<>>)

\* C6: the network records of a cycle, and the metrics emitted from them,
\* keep the order of arrival and the wire order: frames are accumulated in
\* the order they were read from the socket, each frame contributes its
\* networks and then its stations in wire order, and the networks of the
\* result are the concatenation over the frames, followed per frame by tx
\* then rx of each station.
C6_ArrivalAndWireOrder ==
  /\ \A i, j \in 1..Len(sock) : i < j => sock[i].id < sock[j].id
  /\ \A c \in Cycles :
       /\ Len(ni[c]) = Len(niSrc[c])
       /\ \A i, j \in 1..Len(niSrc[c]) : i < j => niSrc[c][i].id < niSrc[c][j].id
       /\ \A k \in 1..Len(niSrc[c]) :
            /\ ni[c][k] = WireInfo(niSrc[c][k].payload)
            /\ \A i \in 1..Len(InFlight(c)) : niSrc[c][k].id < InFlight(c)[i]
            /\ \A i \in 1..Len(sock) : niSrc[c][k].id < sock[i].id
       /\ \A i, j \in 1..Len(InFlight(c)) : i < j => InFlight(c)[i] < InFlight(c)[j]
       /\ Returned(c) => result[c].ni = ni[c]
       /\ (Returned(c) /\ pc[c] = "unlock") => metrics[c] = WireMetrics(niSrc[c])

\* a cycle has reported the metrics of two confirmations: two networks of
\* the first, tx and rx of its two stations, then the same of the second
C6_Witness ==
  \E c \in Cycles :
    /\ pc[c] = "unlock"
    /\ Len(result[c].ni) = 2
    /\ niSrc[c][1].payload # niSrc[c][2].payload
    /\ Len(metrics[c]) = 12
    /\ metrics[c][1] # metrics[c][7]

\* C2: every well-formed confirmation that reaches the socket during a cycle
\* is in the list that cycle returns: none is lost to an earlier cycle's
\* receive task or to the moment the wait ends.
C2_NoFrameLost ==
  \A c \in Cycles :
    (Returned(c) /\ pc[c] = "ret") =>
      \A i \in 1..Len(readIn[c]) : InResult(c, readIn[c][i])

\* C1: a cycle returns once a full second has passed since the last frame
\* was handed to the foreground, and then the returned list holds the
\* records of every well-formed confirmation that arrived since the request,
\* each within a second of the one before.
C1_IdleTimeout ==
  \A c \in Cycles :
    (Returned(c) /\ pc[c] = "ret") =>
      /\ sinceHandoff = Second
      /\ srcOK => \A i \in 1..Len(emitted) : InResult(c, emitted[i])

\* The timing half alone: a cycle returns a list exactly when a full second
\* has passed since the last hand-off (or since the request).
ReturnsAfterIdleSecond ==
  \A c \in Cycles : (Returned(c) /\ pc[c] = "ret") => sinceHandoff = Second

\* C3: at most one collection cycle, foreground and receive task included,
\* is active on the connection at any time.
C3_OneActiveCycle ==
  /\ Cardinality({c \in Cycles : Foreground(c) \/ Receiving(c)}) <= 1
  /\ \A c \in Cycles : Foreground(c) => mutex = c

\* The foreground half alone: the mutex admits one foreground at a time.
OneForeground ==
  /\ Cardinality({c \in Cycles : Foreground(c)}) <= 1
  /\ \A c \in Cycles : Foreground(c) => mutex = c

\* the frame h is one the cycle is to discard: not a confirmation, or a
\* confirmation whose payload is shorter than its counts declare
Discardable(h) == h.MMEType # nwInfoCnf \/ TooShort(h.Payload)

\* C8: a frame the cycle discards changes no result state, and the cycle
\* goes on waiting for further frames.
C8_DiscardChangesNothing ==
  [][\A c \in Cycles :
       (pc[c] = "select" /\ ch[c] # <<>> /\ ch'[c] = Tail(ch[c])
        /\ Discardable(Head(ch[c]).h))
         => (ni'[c] = ni[c] /\ pc'[c] = "select" /\ ~crashed')]_vars

\* The same for the frames that do not make the parser panic.
DiscardWithoutPanic ==
  [][\A c \in Cycles :
       (pc[c] = "select" /\ ch[c] # <<>> /\ ch'[c] = Tail(ch[c])
        /\ Discardable(Head(ch[c]).h)
        /\ Len(Head(ch[c]).h.Payload) # 0
        /\ Len(Head(ch[c]).h.Payload) # StationCountAt(Head(ch[c]).h.Payload))
         => (ni'[c] = ni[c] /\ pc'[c] = "select" /\ ~crashed')]_vars

(***************************************************************************)
(* Further properties of the codec (checked under SpecCodec).              *)
(***************************************************************************)
\* C11: HomeplugFrame.UnmarshalBinary fails with the truncation error on
\* every input of 0 to 5 bytes and leaves the receiver's fields as they
\* were, and succeeds on every input of 6 or more bytes; the receive loop
\* forwards the frame exactly when the decoding succeeds.
C11_ShortFrameIsRejected ==
  cout.kind = "decoded" =>
    /\ Len(cin.b) < FrameHeaderLen =>
         (cout.u.err /\ cout.u.h = cin.h /\ ~cout.d.fwd)
    /\ Len(cin.b) >= FrameHeaderLen =>
         (~cout.u.err /\ cout.d.fwd /\ cout.d.h = cout.u.h)

\* five bytes have been decoded into a receiver whose fields were all set
C11_Witness ==
  /\ cout.kind = "decoded"
  /\ Len(cin.b) = FrameHeaderLen - 1
  /\ cin.h # ZeroFrame
  /\ cout.u.err

\* In the receive loop a frame of fewer than 6 bytes is not forwarded: the
\* channel and the frame held are untouched and the task reads again.
ShortFrameIsSkipped ==
  [][\A c \in Cycles :
       (rpc[c] = "read" /\ sock # <<>> /\ sock' = Tail(sock)
        /\ rpc'[c] \notin {"dead", "failed"} /\ Head(sock).eth
        /\ Len(Head(sock).b) < FrameHeaderLen)
         => (rpc'[c] = "read" /\ ch' = ch /\ rh' = rh)]_vars

\* C12: encoding puts the version in byte 0, the second byte of the message
\* type in byte 1, the first in byte 2, the vendor in bytes 3 to 5 and the
\* payload from byte 6 on; the discovery request goes out as
\* 00 38 A0 00 B0 52, and decoding wire bytes 38 A0 yields type A0 38.
C12_WireLayout ==
  /\ cout.kind = "roundtrip" =>
       /\ cout.m.b[1] = cin.f.Version[1]
       /\ cout.m.b[2] = cin.f.MMEType[2]
       /\ cout.m.b[3] = cin.f.MMEType[1]
       /\ SubSeq(cout.m.b, 4, 6) = cin.f.Vendor
       /\ SubSeq(cout.m.b, 7, Len(cout.m.b)) = cin.f.Payload
       /\ cin.f = RequestFrame =>
            (cout.m.b = <<0, 56, 160, 0, 176, 82>> /\ Request = cout.m.b)
  /\ (cout.kind = "decoded" /\ Len(cin.b) >= FrameHeaderLen
      /\ cin.b[2] = 56 /\ cin.b[3] = 160)
       => cout.u.h.MMEType = <<160, 56>>

\* the discovery request has been encoded
C12_Witness ==
  /\ cout.kind = "roundtrip"
  /\ cin.f = RequestFrame
  /\ cout.m.b = <<0, 56, 160, 0, 176, 82>>
  /\ cout.u.h.MMEType = nwInfoReq

\* the buffer b is the layout of exactly n network and m station records
LayoutOf(b, n, m) ==
  b = <<n>> \o NetworkRecords(n) \o <<m>> \o StationRecords(m)

\* C13: parsing the count-prefixed layout of N network and M station
\* records succeeds and yields exactly N networks and M stations, in the
\* original order, every field equal to the encoded one.
C13_NetworkInfoRoundTrip ==
  cout.kind = "parsed" =>
    \A n, m \in 0..MaxCount :
      LayoutOf(cin.b, n, m) =>
        /\ cout.r.status = "ok"
        /\ Len(cout.r.n.Networks) = n
        /\ Len(cout.r.n.Stations) = m
        /\ \A i \in 1..n : cout.r.n.Networks[i] = NetworkAt(NetOf(i), 0)
        /\ \A j \in 1..m : cout.r.n.Stations[j] = StationAt(StaOf(j), 0)

\* the layout of MaxCount networks and MaxCount stations has been parsed
C13_Witness ==
  /\ cout.kind = "parsed"
  /\ LayoutOf(cin.b, MaxCount, MaxCount)
  /\ Len(cout.r.n.Stations) = MaxCount
  /\ cout.r.n.Networks[1] # cout.r.n.Networks[MaxCount]

\* C15: for every rate code c in 0..255 the reported tx and rx byte rate is
\* c * 1024 * 1024 / 8 = c * 131072 exactly; the product stays far below
\* 2^64, so nothing wraps, and nothing is truncated.
C15_RateConversion ==
  cout.kind = "rate" =>
    /\ cout.tx = cin.code * 131072
    /\ cout.rx = cin.code * 131072
    /\ cin.code * 1024 * 1024 < 268435456
    /\ cout.tx * 8 = cin.code * 1024 * 1024
    /\ cin.code = 1 => cout.tx = 131072
    /\ cin.code = 50 => cout.tx = 6553600
    /\ cin.code = 100 => cout.tx = 13107200

\* the largest code has been converted
C15_Witness ==
  /\ cout.kind = "rate"
  /\ cin.code = 255
  /\ cout.tx = 33423360
  /\ cout.rx = 33423360

\* the text s is an alias, or parses as a hardware address of 6 bytes, or
\* is 12 hexadecimal digits
NamesAddress(s) ==
  \/ s \in {Broadcast, All, Local}
  \/ (~ParseMAC(s).err /\ Len(ParseMAC(s).b) = 6)
  \/ (~DecodeString(s).err /\ Len(DecodeString(s).b) = 6)

\* C14: given as destination, "broadcast" and "all" make the program send
\* to ff:ff:ff:ff:ff:ff and "local" to 00:b0:52:00:00:01, and a text that
\* is no 6-byte hardware address is rejected with an error.
C14_DestinationAliases ==
  cout.kind = "dest" =>
    /\ cin.text \in {Broadcast, All} =>
         (cout.flag.status = "ok" /\ cout.flag.dest = <<255, 255, 255, 255, 255, 255>>)
    /\ cin.text = Local =>
         (cout.flag.status = "ok" /\ cout.flag.dest = <<0, 176, 82, 0, 0, 1>>)
    /\ ~NamesAddress(cin.text) => cout.flag.status = "rejected"

\* macAddressValue.Set, which no flag of the program uses, does resolve the
\* aliases, and on a text that is no 6-byte address in the notation of
\* net.ParseMAC returns an error and leaves the value as it was.
SetResolvesAliases ==
  cout.kind = "dest" =>
    /\ cin.text \in {Broadcast, All} =>
         (~cout.set.err /\ cout.set.v = <<255, 255, 255, 255, 255, 255>>)
    /\ cin.text = Local =>
         (~cout.set.err /\ cout.set.v = <<0, 176, 82, 0, 0, 1>>)
    /\ (cin.text \notin {Broadcast, All, Local}
        /\ (ParseMAC(cin.text).err \/ Len(ParseMAC(cin.text).b) # 6))
         => (cout.set.err /\ cout.set.v = cin.prev)

\* The program takes 12 hexadecimal digits and more: the first 6 bytes are
\* the destination; every text with another character is rejected.
FlagTakesHexDigits ==
  cout.kind = "dest" =>
    /\ (~DecodeString(cin.text).err /\ Len(DecodeString(cin.text).b) >= 6)
         => (cout.flag.status = "ok"
             /\ cout.flag.dest = SubSeq(DecodeString(cin.text).b, 1, 6))
    /\ (\E i \in 1..Len(cin.text) : HexVal(cin.text[i]) < 0)
         => cout.flag.status = "rejected"

(***************************************************************************)
(* Properties of the receive task and of the lock (Spec and SpecLive).     *)
(***************************************************************************)
\* the receive task of cycle c has ended
Ended(c) == rpc[c] \in {"dead", "failed"}

\* C16: a read that reaches its one-second deadline with no data is not an
\* error: the receive task sets a new deadline and reads again.
C16_ReadTimeoutIsRetried ==
  [][\A c \in Cycles :
       (rpc[c] = "read" /\ connDl >= Second /\ sock = <<>>) => rpc'[c] = "read"]_vars

\* What the code does instead: with no data, the step a reading receive
\* task takes when its deadline has come is its last.
ReadDeadlineEndsTask ==
  [][\A c \in Cycles :
       (rpc[c] = "read" /\ connDl >= Second /\ sock = <<>> /\ rpc'[c] # "read")
         => Ended(c)']_vars

\* C17: a read failure other than the timeout ends the receive task and not
\* the cycle: the failure leaves the collector's state alone, nothing is put
\* into the channel afterwards, a frame that was in the channel is taken
\* before the cycle returns, and the cycle returns its list, not an error,
\* through the idle timeout.
C17_ReadFailureKeepsCycle ==
  [][\A c \in Cycles :
       /\ (rpc[c] = "read" /\ rpc'[c] = "failed")
            => (pc' = pc /\ ni' = ni /\ ch' = ch /\ result' = result)
       /\ rpc[c] = "failed"
            => (Ended(c)' /\ (ch'[c] = ch[c] \/ ch'[c] = Tail(ch[c])))
       /\ (rpc[c] = "failed" /\ pc[c] = "select" /\ pc'[c] # "select")
            => /\ ch[c] = <<>>
               /\ pc'[c] = "ret"
               /\ ~result'[c].err /\ result'[c].ni = ni[c]]_vars

\* The same without the demand that the channel be empty at the return.
ReadFailureLeavesCollector ==
  [][\A c \in Cycles :
       /\ (rpc[c] = "read" /\ rpc'[c] = "failed")
            => (pc' = pc /\ ni' = ni /\ ch' = ch /\ result' = result)
       /\ rpc[c] = "failed"
            => (Ended(c)' /\ (ch'[c] = ch[c] \/ ch'[c] = Tail(ch[c])))
       /\ (rpc[c] = "failed" /\ pc[c] = "select" /\ pc'[c] # "select")
            => /\ after >= Second
               /\ pc'[c] = "ret"
               /\ ~result'[c].err /\ result'[c].ni = ni[c]]_vars

\* C18: once get_homeplug_netinfo has returned, with a list or with the
\* send error, the receive task the cycle started has ended; so no receive
\* task of an earlier cycle is on the socket when a cycle starts.
C18_ReaderEndsWithCycle ==
  \A c \in Cycles :
    /\ pc[c] \in {"ret", "unlock", "done"} => Ended(c)
    /\ Foreground(c) => \A d \in Cycles \ {c} : ~Receiving(d)

\* C19: every receive task ends: none stays blocked on the send into the
\* channel (or in a read) for ever.
C19_ReaderTerminates ==
  \A c \in Cycles : (Receiving(c) /\ ~crashed) ~> (Ended(c) \/ crashed)

\* A receive task that is reading does end; one that is at the send stays
\* there for ever when its cycle is over and the channel is full.
ReadingTaskLeavesRead ==
  \A c \in Cycles : (rpc[c] = "read" /\ ~crashed) ~> (rpc[c] # "read" \/ crashed)

\* C20: the lock is released when a cycle ends, with a list or with the
\* send error: a Collect call that waits for the lock starts its cycle, and
\* every cycle started returns.
C20_LockReleased ==
  /\ [](\A c \in Cycles : (pc[c] = "done" => mutex # c))
  /\ (waiting > 0) ~> (waiting = 0)
  /\ \A c \in Cycles : Foreground(c) ~> (pc[c] = "done")

\* The lock is held by the running foreground and by nothing else, and
\* unless the process dies every waiting call gets it and every cycle
\* returns.
LockReleasedUnlessCrash ==
  /\ [](\A c \in Cycles : (mutex = c <=> Foreground(c)))
  /\ (waiting > 0) ~> (waiting = 0 \/ crashed)
  /\ \A c \in Cycles : Foreground(c) ~> (pc[c] = "done" \/ crashed)

=============================================================================
